---- MODULE Spec2Model ----
(***************************************************************************)
(* A model of multigrid/core/grid.py (Grid) and multigrid/core/agent.py    *)
(* (AgentState, Agent).                                                    *)
(*                                                                         *)
(* Grid: state is the numeric WorldObjState buffer, world_objects the      *)
(* dict of cached handles, objs the world objects that exist (each with    *)
(* its `state` slot: either a private record or a view into a grid cell).  *)
(***************************************************************************)
EXTENDS Integers, Sequences, FiniteSets, TLC

\* ------------------------------------------------------------------ bounds
Width == 3
Height == 3
\* largest batch AgentState(n) the caller constructs
MaxN == 7
\* field writes in one run
MaxWrites == 3

\* --------------------------------------------------- constants.py (indices)
UNSEEN == 0
EMPTY == 1
WALL == 2
BALL == 6
AGENT == 10
RED == 0
GREEN == 1
GREY == 5
NumColors == 6

Max(a, b) == IF a > b THEN a ELSE b
Min(a, b) == IF a < b THEN a ELSE b

\* ------------------------------------------------------------ Cell Records
\* WorldObjState.empty()
EmptyRec == <<EMPTY, 0, 0>>
\* Wall().state
WallRec == <<WALL, GREY, 0>>
ZeroRec == <<0, 0, 0>>

\* ----------------------------------------------------------------- handles
None == <<"none", 0, 0>>
Obj(n) == <<"obj", n, 0>>
Mat(i, j) == <<"mat", i, j>>
Dec(i, j) == <<"dec", i, j>>
TheAgent == <<"agent", 0, 0>>

\* isinstance(v, WorldObj) / isinstance(v, Agent)
IsWorldObj(v) == v[1] \in {"obj", "mat", "dec"}
IsAgent(v) == v[1] = "agent"

NoCell == <<-1, -1>>
\* a world object whose `state` is a private record
Detached(rec) == [attached |-> FALSE, cell |-> NoCell, rec |-> rec]
\* a world object whose `state` is the view self.state[i, j]
Attached(i, j) == [attached |-> TRUE, cell |-> <<i, j>>, rec |-> ZeroRec]

\* the world objects the caller constructs: one red Ball
PoolObjs == {Obj(1)}
InitRec(n) == <<BALL, RED, 0>>

VARIABLES state, world_objects, objs, lastOp,
          abuf, acarried, view, alast, nWrites, agent,
          tile_cache, returned, tile_last

gridVars == <<state, world_objects, objs, lastOp>>
agentVars == <<abuf, acarried, view, alast, nWrites, agent>>
tileVars == <<tile_cache, returned, tile_last>>
vars == <<state, world_objects, objs, lastOp, abuf, acarried, view, alast,
          nWrites, agent, tile_cache, returned, tile_last>>

Cells(w, h) == (0..(w - 1)) \X (0..(h - 1))

\* Grid.__init__
NewGrid(w, h, os) ==
    [w |-> w, h |-> h,
     state |-> [c \in Cells(w, h) |-> EmptyRec],
     world_objects |-> <<>>,
     objs |-> os]

\* the grid of the run, as one value
G == [w |-> Width, h |-> Height, state |-> state,
      world_objects |-> world_objects, objs |-> objs, agent |-> agent]

\* obj.state read through the object's slot
RecOf(g, v) ==
    IF g.objs[v].attached THEN g.state[g.objs[v].cell] ELSE g.objs[v].rec

\* the bounds numpy indexing alone would enforce (the asserts left out)
InBoundsNumpy(g, i, j) == -g.w <= i /\ i < g.w /\ -g.h <= j /\ j < g.h

\* the asserts of Grid.set / Grid.get
InBounds(g, i, j) == 0 <= i /\ i < g.w /\ 0 <= j /\ j < g.h

\* numpy: the indices a slice start:stop selects on an axis of length n
PyClamp(s, n) == IF s < 0 THEN Max(s + n, 0) ELSE Min(s, n)
PySlice(start, stop, n) ==
    {k \in 0..(n - 1) : PyClamp(start, n) <= k /\ k < PyClamp(stop, n)}
\* numpy: an integer index on an axis of length n
PyIndexOk(k, n) == -n <= k /\ k < n
PyIndex(k, n) == IF k < 0 THEN k + n ELSE k

\* d[k] = v on a dict
DictPut(d, k, v) == [x \in (DOMAIN d) \cup {k} |-> IF x = k THEN v ELSE d[x]]

\* the cell of the buffer that self.state[i, j] addresses
StateCell(g, i, j) == <<PyIndex(i, g.w), PyIndex(j, g.h)>>

\* the popped handle keeps its view (the copy left out)
DetachPrevSkipped(g, prev_obj) == g.objs

\* prev_obj.state = prev_obj.state.copy()
DetachPrev(g, prev_obj) ==
    IF IsWorldObj(prev_obj)
    THEN [g.objs EXCEPT ![prev_obj] = Detached(RecOf(g, prev_obj))]
    ELSE g.objs

\* the two assignments in the wrong order: the view is taken before the copy
PlaceWorldObjViewFirst(g, i, j, v) == [g EXCEPT !.objs[v] = Attached(i, j)]

\* self.state[i, j] = v.state ; v.state = self.state[i, j]
PlaceWorldObj(g, i, j, v) ==
    [g EXCEPT !.state[<<i, j>>] = RecOf(g, v), !.objs[v] = Attached(i, j)]

\* the Agent branch written like the WorldObj branch: the cell takes the
\* agent's (type, color, dir) and agent.state is rebound to the cell
GridSetAgentRepointed(g, i, j, v) ==
    IF ~InBounds(g, i, j) THEN [g |-> g, err |-> "AssertionError"]
    ELSE
        LET k == <<i, j>>
            prev_obj == IF k \in DOMAIN g.world_objects
                        THEN g.world_objects[k] ELSE None
            g1 == [g EXCEPT !.world_objects = DictPut(g.world_objects, k, v),
                            !.objs = DetachPrev(g, prev_obj)]
            sc == StateCell(g, i, j)
        IN  CASE v = None ->
                    [g |-> [g1 EXCEPT !.state[sc] = EmptyRec], err |-> ""]
              [] IsWorldObj(v) ->
                    [g |-> PlaceWorldObj(g1, sc[1], sc[2], v), err |-> ""]
              [] IsAgent(v) ->
                    [g |-> [g1 EXCEPT !.state[sc] = <<AGENT, RED, 0>>,
                                      !.agent.state = [kind |-> "cell", cell |-> sc]],
                     err |-> ""]
              [] OTHER -> [g |-> g1, err |-> "TypeError"]

\* Grid.set: the grid after the call and the exception it raised ("" = none)
GridSet(g, i, j, v) ==
    IF ~InBounds(g, i, j) THEN [g |-> g, err |-> "AssertionError"]
    ELSE
        LET k == <<i, j>>
            prev_obj == IF k \in DOMAIN g.world_objects
                        THEN g.world_objects[k] ELSE None
            g1 == [g EXCEPT !.world_objects = DictPut(g.world_objects, k, v),
                            !.objs = DetachPrev(g, prev_obj)]
            sc == StateCell(g, i, j)
        IN  CASE v = None ->
                    [g |-> [g1 EXCEPT !.state[sc] = EmptyRec], err |-> ""]
              [] IsWorldObj(v) ->
                    [g |-> PlaceWorldObj(g1, sc[1], sc[2], v), err |-> ""]
              [] IsAgent(v) ->
                    \* v.world_state(): class Agent defines no such method
                    [g |-> g1, err |-> "AttributeError"]
              [] OTHER -> [g |-> g1, err |-> "TypeError"]

\* WorldObj.from_state(self.state[i, j])
FromState(g, i, j) ==
    IF g.state[StateCell(g, i, j)][1] = EMPTY THEN None ELSE Mat(i, j)

\* Grid.get: the grid after the call, the exception, the returned handle
GridGet(g, i, j) ==
    IF ~InBounds(g, i, j) THEN [g |-> g, err |-> "AssertionError", ret |-> None]
    ELSE
        LET k == <<i, j>> IN
        IF k \in DOMAIN g.world_objects
        THEN [g |-> g, err |-> "", ret |-> g.world_objects[k]]
        ELSE
            LET h == FromState(g, i, j)
                os == IF h = None THEN g.objs
                      ELSE DictPut(g.objs, h, Attached(i, j))
            IN  [g |-> [g EXCEPT !.world_objects = DictPut(g.world_objects, k, h),
                                 !.objs = os],
                 err |-> "", ret |-> h]

\* a run that passes the grid edge is refused instead of clipped
GridHorzWallNoClip(g, x, y, length) ==
    LET len == IF length = <<>> THEN g.w - x ELSE length[1] IN
    IF ~PyIndexOk(y, g.h) \/ x + len > g.w THEN [g |-> g, err |-> "IndexError"]
    ELSE [g |-> [g EXCEPT !.state =
                    [c \in DOMAIN g.state |->
                        IF c[1] \in PySlice(x, x + len, g.w) /\ c[2] = PyIndex(y, g.h)
                        THEN WallRec ELSE g.state[c]]],
          err |-> ""]

\* Grid.horz_wall; length is <<>> for None, <<n>> for n
GridHorzWall(g, x, y, length) ==
    LET len == IF length = <<>> THEN g.w - x ELSE length[1] IN
    IF ~PyIndexOk(y, g.h) THEN [g |-> g, err |-> "IndexError"]
    ELSE [g |-> [g EXCEPT !.state =
                    [c \in DOMAIN g.state |->
                        IF c[1] \in PySlice(x, x + len, g.w) /\ c[2] = PyIndex(y, g.h)
                        THEN WallRec ELSE g.state[c]]],
          err |-> ""]

\* Grid.vert_wall
GridVertWall(g, x, y, length) ==
    LET len == IF length = <<>> THEN g.h - y ELSE length[1] IN
    IF ~PyIndexOk(x, g.w) THEN [g |-> g, err |-> "IndexError"]
    ELSE [g |-> [g EXCEPT !.state =
                    [c \in DOMAIN g.state |->
                        IF c[1] = PyIndex(x, g.w) /\ c[2] \in PySlice(y, y + len, g.h)
                        THEN WallRec ELSE g.state[c]]],
          err |-> ""]

\* Grid.wall_rect: four calls, the first exception ends the call
GridWallRect(g, x, y, w, h) ==
    LET r1 == GridHorzWall(g, x, y, <<w>>)
        r2 == GridHorzWall(r1.g, x, y + h - 1, <<w>>)
        r3 == GridVertWall(r2.g, x, y, <<h>>)
        r4 == GridVertWall(r3.g, x + w - 1, y, <<h>>)
    IN  IF r1.err # "" THEN r1
        ELSE IF r2.err # "" THEN r2
        ELSE IF r3.err # "" THEN r3
        ELSE r4

\* obj.state[f] = val through the object's slot (f: 2 color, 3 state)
WriteObj(g, v, f, val) ==
    IF g.objs[v].attached
    THEN [g EXCEPT !.state[g.objs[v].cell][f] = val]
    ELSE [g EXCEPT !.objs[v].rec[f] = val]

\* WorldObj.encode(): (type index, color index, state)
ObjEncode(g, v) == <<RecOf(g, v)[1], RecOf(g, v)[2], RecOf(g, v)[3]>>

\* WorldObjState.encode(): the (type, color, state) channels of every cell
StateEncode(g) ==
    [c \in DOMAIN g.state |-> <<g.state[c][1], g.state[c][2], g.state[c][3]>>]

\* the array self.state.encode() returns: it may share the buffer's memory
StateEncodeArray(g) ==
    [w |-> g.w, h |-> g.h, a |-> StateEncode(g), alias |-> TRUE]

\* the encoding used without the copy
EncodeCopySkipped(t) == t

\* .copy(): an array of its own
EncodeCopy(t) == [t EXCEPT !.alias = FALSE]

\* the cells a vis_mask argument marks visible (<<>> for None, <<S>> for the
\* mask true on S)
Visible(g, vis_mask) ==
    IF vis_mask = <<>> THEN Cells(g.w, g.h) ELSE vis_mask[1]

\* Grid.encode: the returned tensor
GridEncode(g, vis_mask) ==
    LET encoding == EncodeCopy(StateEncodeArray(g)) IN
    [encoding EXCEPT !.a = [c \in Cells(g.w, g.h) |->
                              IF c \in Visible(g, vis_mask) THEN encoding.a[c]
                              ELSE ZeroRec]]

\* Grid.encode: the grid after the call; encoding[~vis_mask] = 0 reaches the
\* buffer only if the encoding shares its memory
GridAfterEncode(g, vis_mask) ==
    IF GridEncode(g, vis_mask).alias
    THEN [g EXCEPT !.state = [c \in DOMAIN g.state |->
                                IF c \in Visible(g, vis_mask) THEN g.state[c]
                                ELSE ZeroRec]]
    ELSE g

\* WorldObj.decode(type_idx, color_idx, state): the object it builds at (i, j)
ObjDecode(t, i, j) == IF t[1] \in {EMPTY, UNSEEN} THEN None ELSE Dec(i, j)

\* the loop body with the coordinates of set swapped
DecodeCellSwapped(g, array, i, j) ==
    LET t == array.a[<<i, j>>]
        v == ObjDecode(t, i, j)
        g0 == IF v = None THEN g
              ELSE [g EXCEPT !.objs = DictPut(g.objs, v, Detached(t))]
    IN  GridSet(g0, j, i, v).g

\* one iteration of the loop of Grid.decode
DecodeCell(g, array, i, j) ==
    LET t == array.a[<<i, j>>]
        v == ObjDecode(t, i, j)
        g0 == IF v = None THEN g
              ELSE [g EXCEPT !.objs = DictPut(g.objs, v, Detached(t))]
    IN  GridSet(g0, i, j, v).g

\* for i in range(width): for j in range(height)
CellSeq(w, h) == [n \in 1..(w * h) |-> <<(n - 1) \div h, (n - 1) % h>>]

RECURSIVE DecodeCells(_, _, _)
DecodeCells(g, array, cs) ==
    IF cs = <<>> THEN g
    ELSE DecodeCells(DecodeCell(g, array, Head(cs)[1], Head(cs)[2]), array, Tail(cs))

\* the mask computed against the index of the empty type
GridDecodeMaskEmpty(array) ==
    [grid |-> DecodeCells(NewGrid(array.w, array.h, <<>>), array,
                          CellSeq(array.w, array.h)),
     vis_mask |-> {c \in Cells(array.w, array.h) : array.a[c][1] # EMPTY}]

\* Grid.decode: the new grid and the visibility mask (the set of true cells)
GridDecode(array) ==
    [grid |-> DecodeCells(NewGrid(array.w, array.h, <<>>), array,
                          CellSeq(array.w, array.h)),
     vis_mask |-> {c \in Cells(array.w, array.h) : array.a[c][1] # UNSEEN}]

\* the last call: its name, arguments, exception and result
\*   v: the object a write went through      ret: the handle get returned
\*   prev: the handle set popped             enc: v.encode() before set(i, j, v)
\*   out: the tensor of encode, the (grid, mask) of decode
NoOp == [op |-> "init", args |-> <<>>, v |-> None, err |-> "", ret |-> None,
         prev |-> None, enc |-> ZeroRec, out |-> <<>>]

\* ------------------------------------------------------------- AgentState
\* column indices of an agent record (agent.py)
TYPE == 0
COLOR == 1
DIR == 2
POS_START == 3
POS_STOP == 5
TERMINATED == 5
CARRYING_START == 6
WorldObjDim == 3
\* AgentState.dim
AgentDim == 6 + WorldObjDim

\* the Color enumeration, in index order
ColorNames == <<"red", "green", "blue", "purple", "yellow", "grey">>
\* Color(c).to_index()
ColorToIndex(c) == (CHOOSE i \in 1..Len(ColorNames) : ColorNames[i] = c) - 1
\* Color.from_index(i)
ColorFromIndex(i) == ColorNames[i + 1]
\* Direction(out): the member with value out, or the ValueError of the lookup
DirFromInt(d) == IF d \in -1..3 THEN d ELSE "ValueError"

Fields == {"color", "dir", "pos", "terminated"}

\* the dir setter writing the terminated column
RecSetDirOnTerminated(rec, f, value) ==
    CASE f = "color" -> [rec EXCEPT ![COLOR] = ColorToIndex(value)]
      [] f = "dir" -> [rec EXCEPT ![TERMINATED] = value]
      [] f = "pos" -> [c \in DOMAIN rec |->
                          IF c \in PySlice(POS_START, POS_STOP, AgentDim)
                          THEN value[c - POS_START + 1] ELSE rec[c]]
      [] f = "terminated" -> [rec EXCEPT ![TERMINATED] = IF value THEN 1 ELSE 0]

\* a setter's write to one record: self[..., F] = value
RecSet(rec, f, value) ==
    CASE f = "color" -> [rec EXCEPT ![COLOR] = ColorToIndex(value)]
      [] f = "dir" -> [rec EXCEPT ![DIR] = value]
      [] f = "pos" -> [c \in DOMAIN rec |->
                          IF c \in PySlice(POS_START, POS_STOP, AgentDim)
                          THEN value[c - POS_START + 1] ELSE rec[c]]
      [] f = "terminated" -> [rec EXCEPT ![TERMINATED] = IF value THEN 1 ELSE 0]

\* a getter's read of one record: self._view[..., F], converted
RecGet(rec, f) ==
    CASE f = "color" -> ColorFromIndex(rec[COLOR])
      [] f = "dir" -> DirFromInt(rec[DIR])
      [] f = "pos" -> <<rec[POS_START], rec[POS_START + 1]>>
      [] f = "terminated" -> rec[TERMINATED] # 0

\* the default colour taken as the flat index itself, not cycled
NewRecNoCycle(k) ==
    LET zeros == [c \in 0..(AgentDim - 1) |-> 0]
        typed == [zeros EXCEPT ![TYPE] = AGENT, ![COLOR] = k]
    IN  RecSet(RecSet(RecSet(typed, "dir", -1), "pos", <<-1, -1>>),
               "terminated", FALSE)

\* AgentState.__new__: the record with flat index k (0-based)
NewRec(k) ==
    LET zeros == [c \in 0..(AgentDim - 1) |-> 0]
        typed == [zeros EXCEPT ![TYPE] = AGENT, ![COLOR] = k % NumColors]
    IN  RecSet(RecSet(RecSet(typed, "dir", -1), "pos", <<-1, -1>>),
               "terminated", FALSE)

\* AgentState.__new__(n): the buffer and the side table of carried objects
NewBuf(n) == [i \in 1..n |-> NewRec(i - 1)]
NewCarried(n) == [i \in 1..n |-> None]

\* an array held by an AgentState object: rows of the root buffer (a numpy
\* view), or an own copy of rows
RootRows(rows) == [own |-> FALSE, rows |-> rows, copy |-> <<>>]
OwnCopy(rows, copy) == [own |-> TRUE, rows |-> rows, copy |-> copy]

\* the AgentState the caller constructed: data, _view and _carried_obj
RootObj(n) ==
    [kind |-> "root", scalar |-> FALSE,
     data |-> RootRows([i \in 1..n |-> i]),
     vw |-> RootRows([i \in 1..n |-> i]),
     carried |-> RootRows([i \in 1..n |-> i])]
NoView == [kind |-> "none", scalar |-> FALSE, data |-> RootRows(<<>>),
           vw |-> RootRows(<<>>), carried |-> RootRows(<<>>)]

\* the ascending sequence of the members of a set of row numbers
RECURSIVE SetToSeq(_)
SetToSeq(S) ==
    IF S = {} THEN <<>>
    ELSE LET m == CHOOSE x \in S : \A y \in S : x <= y
         IN  <<m>> \o SetToSeq(S \ {m})

\* the records an array holds, read from the buffer buf of the root
RefRead(buf, ref) ==
    IF ref.own THEN ref.copy ELSE [i \in 1..Len(ref.rows) |-> buf[ref.rows[i]]]

\* numpy: basic indexing (an integer, a slice) returns a view, indexing with
\* a boolean mask returns a copy
IndexIsView(idx) == idx[1] \in {"int", "slice"}

\* the rows of a batch of n records that idx selects (1-based)
IndexRows(idx, n) ==
    CASE idx[1] = "int" -> <<PyIndex(idx[2], n) + 1>>
      [] idx[1] = "slice" -> SetToSeq({k + 1 : k \in PySlice(idx[2], idx[3], n)})
      [] idx[1] = "mask" -> SetToSeq({k + 1 : k \in idx[2]})

\* AgentState.__getitem__ on the root batch
GetItem(buf, car, idx) ==
    LET n == Len(buf)
        rows == IndexRows(idx, n)
        pick(a) == [i \in 1..Len(rows) |-> a[rows[i]]]
    IN  [kind |-> idx[1], scalar |-> idx[1] = "int",
         data |-> IF IndexIsView(idx) THEN RootRows(rows)
                  ELSE OwnCopy(rows, pick(buf)),
         vw |-> IF IndexIsView(idx) THEN RootRows(rows)
                ELSE OwnCopy(rows, pick(buf)),
         carried |-> IF IndexIsView(idx) THEN RootRows(rows)
                     ELSE OwnCopy(rows, pick(car))]

\* a field getter on an AgentState object: one value for a scalar view, the
\* sequence of values for a batch
FieldGet(buf, obj, f) ==
    LET recs == RefRead(buf, obj.vw) IN
    IF obj.scalar THEN RecGet(recs[1], f)
    ELSE [i \in 1..Len(recs) |->
            IF f = "dir" THEN recs[i][DIR] ELSE RecGet(recs[i], f)]

\* the carrying getter: self._carried_obj
CarryingGet(car, obj) ==
    LET refs == RefRead(car, obj.carried) IN
    IF obj.scalar THEN refs[1] ELSE refs

\* a field setter on an AgentState object, value broadcast to every record:
\* the root buffer and the object after the call
FieldSet(buf, obj, f, value) ==
    IF obj.data.own
    THEN [buf |-> buf,
          obj |-> [obj EXCEPT !.data.copy =
                      [i \in 1..Len(obj.data.copy) |->
                          RecSet(obj.data.copy[i], f, value)]]]
    ELSE [buf |-> [r \in 1..Len(buf) |->
                      IF \E i \in 1..Len(obj.data.rows) : obj.data.rows[i] = r
                      THEN RecSet(buf[r], f, value) ELSE buf[r]],
          obj |-> obj]

\* a field setter given a sequence: numpy broadcasts it over the records, so
\* a sequence of one value is accepted like a scalar, one value per record is
\* assigned elementwise, and any other length raises ValueError
FieldSetSeq(buf, obj, f, seq) ==
    LET rows == obj.data.rows
        n == Len(rows)
        at(i) == IF Len(seq) = 1 THEN seq[1] ELSE seq[i]
        pos(r) == CHOOSE i \in 1..n : rows[i] = r
    IN  IF Len(seq) # n /\ Len(seq) # 1
        THEN [buf |-> buf, obj |-> obj, err |-> "ValueError"]
        ELSE IF obj.data.own
        THEN [buf |-> buf,
              obj |-> [obj EXCEPT !.data.copy =
                          [i \in 1..n |-> RecSet(obj.data.copy[i], f, at(i))]],
              err |-> ""]
        ELSE [buf |-> [r \in 1..Len(buf) |->
                          IF \E i \in 1..n : rows[i] = r
                          THEN RecSet(buf[r], f, at(pos(r))) ELSE buf[r]],
              obj |-> obj, err |-> ""]

NoAOp == [op |-> "none", idx |-> <<>>, f |-> "", val |-> <<>>, err |-> ""]

\* ------------------------------------------------------------------ Agent
\* no Agent constructed yet
NoAgent == [index |-> -1, state |-> NoView, mission |-> "none",
            view_size |-> 0, see_through_walls |-> FALSE]

\* Agent.__init__(index, state=state, view_size, see_through_walls)
NewAgent(index, st, view_size, stw) ==
    IF view_size % 2 = 1 /\ view_size >= 3
    THEN [agent |-> [index |-> index, state |-> st, mission |-> "none",
                     view_size |-> view_size, see_through_walls |-> stw],
          err |-> ""]
    ELSE [agent |-> NoAgent, err |-> "AssertionError"]

\* the record agent.state refers to, columns numbered from 0: rows of an
\* AgentState buffer, or the grid cell the attribute was bound to
AgentRecOf(g, buf, ag) ==
    IF ag.state.kind = "cell"
    THEN [c \in 0..(WorldObjDim - 1) |-> g.state[ag.state.cell][c + 1]]
    ELSE RefRead(buf, ag.state.vw)[1]

\* agent.f = value, written through whatever agent.state refers to
AgentWrite(g, buf, ag, f, value) ==
    IF ag.state.kind = "cell"
    THEN [g |-> CASE f = "color" ->
                        [g EXCEPT !.state[ag.state.cell][COLOR + 1] = ColorToIndex(value)]
                   [] f = "dir" ->
                        [g EXCEPT !.state[ag.state.cell][DIR + 1] = value]
                   [] OTHER -> g,
          buf |-> buf, agent |-> ag]
    ELSE LET r == FieldSet(buf, ag.state, f, value)
         IN  [g |-> g, buf |-> r.buf, agent |-> [ag EXCEPT !.state = r.obj]]

\* Agent.encode(): (Type.agent.to_index(), color.to_index(), dir)
AgentEncode(g, buf, ag) ==
    LET rec == AgentRecOf(g, buf, ag) IN
    <<AGENT, ColorToIndex(ColorFromIndex(rec[COLOR])), DirFromInt(rec[DIR])>>

\* the unit vector of a direction (0 right, 1 down, 2 left, 3 up)
DirVec(d) ==
    CASE d = 0 -> <<1, 0>>
      [] d = 1 -> <<0, 1>>
      [] d = 2 -> <<-1, 0>>
      [] d = 3 -> <<0, -1>>
      [] OTHER -> <<0, 0>>

\* Agent.front_pos: front_pos(*agent_pos, agent_dir)
FrontPos(g, buf, ag) ==
    LET rec == AgentRecOf(g, buf, ag) IN
    <<rec[POS_START] + DirVec(rec[DIR])[1], rec[POS_START + 1] + DirVec(rec[DIR])[2]>>

\* the rows of the root buffer an AgentState object writes to ({} for a copy)
RowsOf(obj) ==
    IF obj.data.own THEN {}
    ELSE {obj.data.rows[i] : i \in 1..Len(obj.data.rows)}

\* the record with the columns CARRYING replaced by the Cell Record orec
CarrySlice(rec, orec) ==
    [c \in DOMAIN rec |->
        IF c \in PySlice(CARRYING_START, CARRYING_START + WorldObjDim, AgentDim)
        THEN orec[c - CARRYING_START + 1] ELSE rec[c]]

\* the carrying setter: o is the object (or None), orec its Cell Record
\*   self[..., CARRYING] = WorldObj.empty() if obj is None else obj
\*   self._carried_obj[...].fill(obj)
CarryingSet(buf, car, obj, o, orec) ==
    LET r == IF o = None THEN EmptyRec ELSE orec IN
    [buf |-> IF obj.data.own THEN buf
             ELSE [k \in 1..Len(buf) |->
                     IF k \in RowsOf(obj) THEN CarrySlice(buf[k], r) ELSE buf[k]],
     car |-> IF obj.carried.own THEN car
             ELSE [k \in 1..Len(car) |->
                     IF \E i \in 1..Len(obj.carried.rows) : obj.carried.rows[i] = k
                     THEN o ELSE car[k]],
     obj |-> [obj EXCEPT
                !.data.copy = IF obj.data.own
                              THEN [i \in 1..Len(obj.data.copy) |->
                                      CarrySlice(obj.data.copy[i], r)]
                              ELSE obj.data.copy,
                !.carried.copy = IF obj.carried.own
                                 THEN [i \in 1..Len(obj.carried.copy) |-> o]
                                 ELSE obj.carried.copy]]

\* reset without the last assignment (carrying is left as it was)
AgentResetKeepsCarrying(buf, car, ag, mission) ==
    LET s1 == FieldSet(buf, ag.state, "pos", <<-1, -1>>)
        s2 == FieldSet(s1.buf, s1.obj, "dir", -1)
        s3 == FieldSet(s2.buf, s2.obj, "terminated", FALSE)
    IN  [buf |-> s3.buf, car |-> car,
         agent |-> [ag EXCEPT !.mission = mission, !.state = s3.obj]]

\* Agent.reset(mission)
AgentReset(buf, car, ag, mission) ==
    LET s1 == FieldSet(buf, ag.state, "pos", <<-1, -1>>)
        s2 == FieldSet(s1.buf, s1.obj, "dir", -1)
        s3 == FieldSet(s2.buf, s2.obj, "terminated", FALSE)
        s4 == CarryingSet(s3.buf, car, s3.obj, None, EmptyRec)
    IN  [buf |-> s4.buf, car |-> s4.car,
         agent |-> [ag EXCEPT !.mission = mission, !.state = s4.obj]]

\* -------------------------------------------------------- Grid.render_tile
\* no render_tile call made yet
NoTile == [key |-> <<>>, subdivs |-> 0, hit |-> FALSE, ret |-> <<>>]

\* key = (highlight, tile_size); key = obj.encode() + key if obj else key
\* (the encoding is kept as the first component, <<>> when there is none)
TileKey(g, obj, highlight, tile_size) ==
    <<IF obj # None THEN ObjEncode(g, obj) ELSE <<>>, highlight, tile_size>>

\* the buffer render_tile computes: grid lines, obj.render(img) if obj is not
\* None, highlight_img(img) if highlight, downsample(img, subdivs)
RenderImage(g, obj, highlight, tile_size, subdivs) ==
    [obj |-> IF obj # None THEN ObjEncode(g, obj) ELSE <<>>,
     highlight |-> highlight, tile_size |-> tile_size, subdivs |-> subdivs]

\* render_tile without the lookup: every call renders and stores
RenderTileNoLookup(cache, g, obj, highlight, tile_size, subdivs) ==
    LET key == TileKey(g, obj, highlight, tile_size)
        img == RenderImage(g, obj, highlight, tile_size, subdivs)
    IN  [cache |-> DictPut(cache, key, img), ret |-> img,
         hit |-> key \in DOMAIN cache]

\* render_tile with the subdivision factor taken into account: a buffer
\* cached for another factor is rendered again and replaced
RenderTileSubdivsKeyed(cache, g, obj, highlight, tile_size, subdivs) ==
    LET key == TileKey(g, obj, highlight, tile_size) IN
    IF key \in DOMAIN cache /\ cache[key].subdivs = subdivs
    THEN [cache |-> cache, ret |-> cache[key], hit |-> TRUE]
    ELSE LET img == RenderImage(g, obj, highlight, tile_size, subdivs)
         IN  [cache |-> DictPut(cache, key, img), ret |-> img, hit |-> FALSE]

\* Grid.render_tile: the cache after the call, the returned buffer, and
\* whether the key was found
RenderTile(cache, g, obj, highlight, tile_size, subdivs) ==
    LET key == TileKey(g, obj, highlight, tile_size) IN
    IF key \in DOMAIN cache
    THEN [cache |-> cache, ret |-> cache[key], hit |-> TRUE]
    ELSE LET img == RenderImage(g, obj, highlight, tile_size, subdivs)
         IN  [cache |-> DictPut(cache, key, img), ret |-> img, hit |-> FALSE]

Init ==
    /\ state = [c \in Cells(Width, Height) |-> EmptyRec]
    /\ world_objects = <<>>
    /\ objs = [v \in PoolObjs |-> Detached(InitRec(v[2]))]
    /\ lastOp = NoOp
    /\ abuf = <<>>
    /\ acarried = <<>>
    /\ view = NoView
    /\ alast = NoAOp
    /\ nWrites = 0
    /\ agent = NoAgent
    /\ tile_cache = <<>>
    /\ returned = {}
    /\ tile_last = NoTile

\* ---------------------------------------------------------- inputs of calls
\* coordinates of set/get calls: two cells of row 0, and outside the grid
ActiveCells == {<<0, 0>>, <<1, 0>>}
CallCells == ActiveCells \cup {<<-1, 0>>, <<Width, 0>>, <<0, Height>>}
\* values of set calls: None, the caller's objects, the handle get just returned
CallValues == {None} \cup PoolObjs \cup {v \in {lastOp.ret} : IsWorldObj(v)}
\* (x, y, length) of horz_wall and vert_wall calls
HorzArgs == {<<0, 0, <<1>>>>, <<1, 0, <<1>>>>, <<0, 0, <<2>>>>}
VertArgs == {<<0, 0, <<1>>>>}
RectArgs == {<<0, 0, Width, Height>>}
\* vis_mask arguments: None, and all cells but (0, 0)
Masks == {<<>>, <<Cells(Width, Height) \ {<<0, 0>>}>>}
WriteVals == {<<2, GREEN>>}

Commit(g, op) ==
    /\ state' = g.state
    /\ world_objects' = g.world_objects
    /\ objs' = g.objs
    /\ lastOp' = op
    /\ UNCHANGED agentVars
    /\ UNCHANGED tileVars

Set(i, j, v) ==
    LET r == GridSet(G, i, j, v) IN
    Commit(r.g, [op |-> "set", args |-> <<i, j>>, v |-> None, err |-> r.err,
                 ret |-> None, out |-> <<>>,
                 prev |-> IF r.err = "" /\ <<i, j>> \in DOMAIN world_objects
                          THEN world_objects[<<i, j>>] ELSE None,
                 enc |-> IF IsWorldObj(v) /\ r.err = "" THEN ObjEncode(G, v)
                         ELSE ZeroRec])

Get(i, j) ==
    LET r == GridGet(G, i, j) IN
    Commit(r.g, [op |-> "get", args |-> <<i, j>>, v |-> None, err |-> r.err,
                 ret |-> r.ret, enc |-> ZeroRec, prev |-> None, out |-> <<>>])

HorzWall(x, y, length) ==
    LET r == GridHorzWall(G, x, y, length) IN
    Commit(r.g, [op |-> "horz_wall", args |-> <<x, y>> \o length, v |-> None,
                 err |-> r.err, ret |-> None, enc |-> ZeroRec, prev |-> None, out |-> <<>>])

VertWall(x, y, length) ==
    LET r == GridVertWall(G, x, y, length) IN
    Commit(r.g, [op |-> "vert_wall", args |-> <<x, y>> \o length, v |-> None,
                 err |-> r.err, ret |-> None, enc |-> ZeroRec, prev |-> None, out |-> <<>>])

WallRect(x, y, w, h) ==
    LET r == GridWallRect(G, x, y, w, h) IN
    Commit(r.g, [op |-> "wall_rect", args |-> <<x, y, w, h>>, v |-> None,
                 err |-> r.err, ret |-> None, enc |-> ZeroRec, prev |-> None, out |-> <<>>])

\* the caller mutates a world object it holds
Write(v, f, val) ==
    Commit(WriteObj(G, v, f, val),
           [op |-> "write", args |-> <<f, val>>, v |-> v, err |-> "",
            ret |-> None, enc |-> ZeroRec, prev |-> None, out |-> <<>>])

Encode(vis_mask) ==
    /\ lastOp' = [NoOp EXCEPT !.op = "encode", !.args = vis_mask,
                              !.out = GridEncode(G, vis_mask)]
    /\ state' = GridAfterEncode(G, vis_mask).state
    /\ UNCHANGED <<world_objects, objs>>
    /\ UNCHANGED agentVars
    /\ UNCHANGED tileVars

\* the caller decodes the tensor the preceding encode returned
Decode ==
    /\ lastOp.op = "encode"
    /\ lastOp' = [NoOp EXCEPT !.op = "decode", !.args = lastOp.args,
                              !.out = GridDecode(lastOp.out)]
    /\ UNCHANGED <<state, world_objects, objs>>
    /\ UNCHANGED agentVars
    /\ UNCHANGED tileVars

Next ==
    \/ \E c \in CallCells, v \in CallValues : Set(c[1], c[2], v)
    \/ \E c \in ActiveCells : Get(c[1], c[2])
    \/ \E a \in HorzArgs : HorzWall(a[1], a[2], a[3])
    \/ \E a \in VertArgs : VertWall(a[1], a[2], a[3])
    \/ \E a \in RectArgs : WallRect(a[1], a[2], a[3], a[4])
    \/ \E v \in DOMAIN objs, w \in WriteVals : Write(v, w[1], w[2])

Spec == Init /\ [][Next]_vars

\* the grid is built by in-bounds calls, then encoded and decoded
NextCodec ==
    \/ \E c \in ActiveCells, v \in CallValues : Set(c[1], c[2], v)
    \/ \E a \in RectArgs : WallRect(a[1], a[2], a[3], a[4])
    \/ \E v \in DOMAIN objs, w \in WriteVals : Write(v, w[1], w[2])
    \/ \E m \in Masks : Encode(m)
    \/ Decode

SpecCodec == Init /\ [][NextCodec]_vars

\* (x, y, length) and (x, y, w, h) of wall calls: runs inside the grid, runs
\* past the far edge, the default length, starts before and beyond the grid,
\* a negative length
WallHorzArgs == {<<0, 0, <<>>>>, <<1, 1, <<Width>>>>,
                 <<Width, 0, <<1>>>>, <<-1, 0, <<2>>>>, <<-2, 1, <<1>>>>,
                 <<0, -1, <<1>>>>, <<0, Height, <<1>>>>, <<0, 1, <<-1>>>>}
WallVertArgs == {<<0, 0, <<>>>>, <<1, 1, <<Height>>>>,
                 <<-1, 0, <<1>>>>, <<0, -2, <<1>>>>, <<Width, 0, <<1>>>>,
                 <<1, Height, <<1>>>>}
WallRectArgs == {<<0, 0, Width, Height>>, <<1, 1, 2, 2>>,
                 <<1, 1, Width, Height>>, <<0, 0, 1, 0>>}

\* walls are drawn on a grid that may hold the ball
NextWalls ==
    \/ \E v \in PoolObjs : Set(0, 0, v)
    \/ \E a \in WallHorzArgs : HorzWall(a[1], a[2], a[3])
    \/ \E a \in WallVertArgs : VertWall(a[1], a[2], a[3])
    \/ \E a \in WallRectArgs : WallRect(a[1], a[2], a[3], a[4])

SpecWalls == Init /\ [][NextWalls]_vars

\* cells and the record the caller writes into a tensor encode returned
TensorCells == {<<0, 0>>, <<1, 0>>}
TensorVals == {<<BALL, GREEN, 1>>}

\* the caller writes tensor[i, j] = rec into the result of the last encode
WriteTensor(c, rec) ==
    /\ lastOp.op \in {"encode", "tensor_write"}
    /\ lastOp' = [lastOp EXCEPT !.op = "tensor_write", !.out.a[c] = rec]
    /\ state' = IF lastOp.out.alias THEN [state EXCEPT ![c] = rec] ELSE state
    /\ UNCHANGED <<world_objects, objs>>
    /\ UNCHANGED agentVars
    /\ UNCHANGED tileVars

\* the grid is built, encoded, and the caller writes into the tensor
NextEncode ==
    \/ \E c \in ActiveCells, v \in {None} \cup PoolObjs : Set(c[1], c[2], v)
    \/ \E a \in HorzArgs : HorzWall(a[1], a[2], a[3])
    \/ \E v \in DOMAIN objs, w \in WriteVals : Write(v, w[1], w[2])
    \/ \E m \in Masks : Encode(m)
    \/ \E c \in TensorCells, r \in TensorVals : WriteTensor(c, r)

SpecEncode == Init /\ [][NextEncode]_vars

\* ------------------------------------------------- AgentState: the calls
\* batch sizes, indices and values the caller uses
Sizes == 1..MaxN
IntIdx(n) == {<<"int", 0>>, <<"int", n - 1>>, <<"int", -1>>}
SliceIdx(n) == {<<"slice", 0, 2>>}
MaskIdx(n) == {<<"mask", {0}>>, <<"mask", {n - 1}>>}
BatchVals == {<<"color", "yellow">>, <<"dir", 0>>, <<"pos", <<1, 2>>>>,
              <<"terminated", TRUE>>}
ViewVals == {<<"color", "red">>, <<"dir", 2>>, <<"pos", <<0, 0>>>>,
             <<"terminated", FALSE>>}

\* AgentState(n)
New(n) ==
    /\ abuf = <<>>
    /\ abuf' = NewBuf(n)
    /\ acarried' = NewCarried(n)
    /\ alast' = [NoAOp EXCEPT !.op = "new"]
    /\ UNCHANGED <<view, nWrites>>
    /\ UNCHANGED agent
    /\ UNCHANGED gridVars
    /\ UNCHANGED tileVars

\* a = agent_state[idx]
Index(idx) ==
    /\ abuf # <<>>
    /\ view' = GetItem(abuf, acarried, idx)
    /\ alast' = [NoAOp EXCEPT !.op = "getitem", !.idx = idx]
    /\ UNCHANGED <<abuf, acarried, nWrites>>
    /\ UNCHANGED agent
    /\ UNCHANGED gridVars
    /\ UNCHANGED tileVars

\* agent_state.f = value
BatchSet(f, value) ==
    /\ abuf # <<>>
    /\ nWrites < MaxWrites
    /\ abuf' = FieldSet(abuf, RootObj(Len(abuf)), f, value).buf
    /\ alast' = [NoAOp EXCEPT !.op = "batchset", !.f = f, !.val = value]
    /\ nWrites' = nWrites + 1
    /\ UNCHANGED <<acarried, view>>
    /\ UNCHANGED agent
    /\ UNCHANGED gridVars
    /\ UNCHANGED tileVars

\* a.f = value
ViewSet(f, value) ==
    /\ view.kind # "none"
    /\ nWrites < MaxWrites
    /\ LET r == FieldSet(abuf, view, f, value) IN
            /\ abuf' = r.buf
            /\ view' = r.obj
    /\ alast' = [NoAOp EXCEPT !.op = "viewset", !.f = f, !.val = value]
    /\ nWrites' = nWrites + 1
    /\ UNCHANGED acarried
    /\ UNCHANGED agent
    /\ UNCHANGED gridVars
    /\ UNCHANGED tileVars

NextAgent ==
    \/ \E n \in Sizes : New(n)
    \/ \E idx \in IntIdx(Len(abuf)) \cup SliceIdx(Len(abuf)) \cup MaskIdx(Len(abuf)) :
            Index(idx)
    \/ \E w \in BatchVals : BatchSet(w[1], w[2])
    \/ \E w \in ViewVals : ViewSet(w[1], w[2])

SpecAgent == Init /\ [][NextAgent]_vars

\* ------------------------------------------------------- Agent: the calls
\* (view_size, see_through_walls) arguments of Agent(...)
AgentArgs == {<<7, FALSE>>, <<3, TRUE>>, <<4, FALSE>>}
Missions == {"maximize reward", "reach the goal"}
\* sizes of the batch an agent's record is a slice of
AgentBatchSizes == {3}
AgentVals == {<<"color", "purple">>, <<"dir", 1>>, <<"pos", <<2, 1>>>>,
              <<"terminated", TRUE>>}

\* agent = Agent(k, state=agent_state[k], view_size=vs, see_through_walls=stw)
MakeAgent(k, vs, stw) ==
    /\ abuf # <<>>
    /\ agent = NoAgent
    /\ LET r == NewAgent(k, GetItem(abuf, acarried, <<"int", k>>), vs, stw) IN
            /\ agent' = r.agent
            /\ alast' = [NoAOp EXCEPT !.op = "agent", !.idx = <<k>>, !.err = r.err]
    /\ UNCHANGED <<abuf, acarried, view, nWrites>>
    /\ UNCHANGED gridVars
    /\ UNCHANGED tileVars

\* agent = Agent(0): state is None, so the agent owns a fresh AgentState()
MakeStandalone ==
    /\ abuf = <<>>
    /\ agent = NoAgent
    /\ abuf' = NewBuf(1)
    /\ acarried' = NewCarried(1)
    /\ agent' = NewAgent(0, [RootObj(1) EXCEPT !.scalar = TRUE], 7, FALSE).agent
    /\ alast' = [NoAOp EXCEPT !.op = "agent", !.idx = <<0>>]
    /\ UNCHANGED <<view, nWrites>>
    /\ UNCHANGED gridVars
    /\ UNCHANGED tileVars

\* agent.f = value (PropertyAlias of the AgentState property)
AgentSet(f, value) ==
    /\ agent # NoAgent
    /\ nWrites < MaxWrites
    /\ LET r == AgentWrite(G, abuf, agent, f, value) IN
            /\ abuf' = r.buf
            /\ agent' = r.agent
            /\ state' = r.g.state
    /\ alast' = [NoAOp EXCEPT !.op = "agentset", !.f = f, !.val = value]
    /\ nWrites' = nWrites + 1
    /\ UNCHANGED <<acarried, view>>
    /\ UNCHANGED <<world_objects, objs, lastOp>>
    /\ UNCHANGED tileVars

\* agent.carrying = o
AgentCarry(o) ==
    /\ agent # NoAgent
    /\ nWrites < MaxWrites
    /\ LET r == CarryingSet(abuf, acarried, agent.state, o,
                            IF o = None THEN EmptyRec ELSE RecOf(G, o)) IN
            /\ abuf' = r.buf
            /\ acarried' = r.car
            /\ agent' = [agent EXCEPT !.state = r.obj]
    /\ alast' = [NoAOp EXCEPT !.op = "agentcarry", !.val = o]
    /\ nWrites' = nWrites + 1
    /\ UNCHANGED view
    /\ UNCHANGED gridVars
    /\ UNCHANGED tileVars

\* agent.reset(mission)
Reset(mission) ==
    /\ agent # NoAgent
    /\ LET r == AgentReset(abuf, acarried, agent, mission) IN
            /\ abuf' = r.buf
            /\ acarried' = r.car
            /\ agent' = r.agent
    /\ alast' = [NoAOp EXCEPT !.op = "reset", !.val = mission]
    /\ UNCHANGED <<view, nWrites>>
    /\ UNCHANGED gridVars
    /\ UNCHANGED tileVars

NextReset ==
    \/ \E n \in AgentBatchSizes : New(n)
    \/ \E k \in {0, Len(abuf) - 1}, a \in AgentArgs : MakeAgent(k, a[1], a[2])
    \/ MakeStandalone
    \/ \E w \in BatchVals : BatchSet(w[1], w[2])
    \/ \E w \in AgentVals : AgentSet(w[1], w[2])
    \/ \E o \in {None} \cup PoolObjs : AgentCarry(o)
    \/ \E m \in Missions : Reset(m)

SpecReset == Init /\ [][NextReset]_vars

\* -------------------------------------------- AgentState: assigned values
AssignSizes == {2, 3}
\* directions assigned, valid and not
DirVals == {-1, 3, 4}
\* sequences assigned to a field of the batch
SeqVals == {<<"dir", <<1>>>>, <<"dir", <<0, 1>>>>, <<"dir", <<0, 1, 2>>>>,
            <<"color", <<"blue">>>>, <<"terminated", <<TRUE, FALSE, TRUE>>>>,
            <<"pos", <<<<1, 1>>, <<2, 2>>>>>>}

\* agent_state.f = [v1, ..., vL]
BatchSetSeq(f, seq) ==
    /\ abuf # <<>>
    /\ nWrites < MaxWrites
    /\ LET r == FieldSetSeq(abuf, RootObj(Len(abuf)), f, seq) IN
            /\ abuf' = r.buf
            /\ alast' = [NoAOp EXCEPT !.op = "batchseq", !.f = f, !.val = seq,
                                      !.err = r.err]
    /\ nWrites' = nWrites + 1
    /\ UNCHANGED <<acarried, view, agent>>
    /\ UNCHANGED gridVars
    /\ UNCHANGED tileVars

NextAssign ==
    \/ \E n \in AssignSizes : New(n)
    \/ \E idx \in IntIdx(Len(abuf)) \cup SliceIdx(Len(abuf)) : Index(idx)
    \/ \E d \in DirVals : BatchSet("dir", d)
    \/ \E d \in DirVals : ViewSet("dir", d)
    \/ \E w \in SeqVals : BatchSetSeq(w[1], w[2])

SpecAssign == Init /\ [][NextAssign]_vars

\* ------------------------------------------------ placing an agent: calls
PlaceVals == {<<"pos", <<0, 0>>>>, <<"dir", 0>>, <<"color", "green">>}

\* grid.set(i, j, agent)
PlaceAgent(i, j) ==
    /\ agent # NoAgent
    /\ LET r == GridSet(G, i, j, TheAgent) IN
            /\ state' = r.g.state
            /\ world_objects' = r.g.world_objects
            /\ objs' = r.g.objs
            /\ agent' = r.g.agent
            /\ lastOp' = [NoOp EXCEPT !.op = "set", !.args = <<i, j>>,
                                      !.v = TheAgent, !.err = r.err]
    /\ UNCHANGED <<abuf, acarried, view, alast, nWrites>>
    /\ UNCHANGED tileVars

NextPlace ==
    \/ MakeStandalone
    \/ \E w \in PlaceVals : AgentSet(w[1], w[2])
    \/ \E c \in ActiveCells : PlaceAgent(c[1], c[2])
    \/ \E c \in ActiveCells, v \in {None} \cup PoolObjs : Set(c[1], c[2], v)
    \/ \E c \in ActiveCells : Get(c[1], c[2])
    \/ HorzWall(0, 0, <<1>>)

SpecPlace == Init /\ [][NextPlace]_vars

\* -------------------------------------------------- render_tile: the calls
TileObjs == {None} \cup PoolObjs
TileSizes == {8}
\* subdivision factors: the default and one other
Subdivs == {3, 2}

\* Grid.render_tile(obj, highlight, tile_size, subdivs)
RenderTileCall(obj, highlight, tile_size, subdivs) ==
    LET r == RenderTile(tile_cache, G, obj, highlight, tile_size, subdivs)
        key == TileKey(G, obj, highlight, tile_size)
    IN  /\ tile_cache' = r.cache
        /\ returned' = returned \cup {<<key, r.ret>>}
        /\ tile_last' = [key |-> key, subdivs |-> subdivs, hit |-> r.hit,
                         ret |-> r.ret]
        /\ UNCHANGED gridVars
        /\ UNCHANGED agentVars

NextTile ==
    \/ \E o \in TileObjs, hl \in BOOLEAN, ts \in TileSizes, sd \in Subdivs :
            RenderTileCall(o, hl, ts, sd)
    \/ \E v \in DOMAIN objs, w \in WriteVals : Write(v, w[1], w[2])

SpecTile == Init /\ [][NextTile]_vars

\* ------------------------------------------------------------------ claims
OffGrid(c) == ~(0 <= c[1] /\ c[1] < Width /\ 0 <= c[2] /\ c[2] < Height)
Cached(c) == c \in DOMAIN world_objects

\* C1: Grid.get(x, y) called right after a successful Grid.set(x, y, obj)
\* with a world object returns a handle whose encode() equals the
\* obj.encode() taken before the set.
C1_GetAfterSet ==
    (lastOp.op = "set" /\ lastOp.err = "" /\ lastOp.enc # ZeroRec) =>
        LET r == GridGet(G, lastOp.args[1], lastOp.args[2]) IN
            /\ r.err = ""
            /\ IsWorldObj(r.ret)
            /\ ObjEncode(r.g, r.ret) = lastOp.enc

\* a recoloured object was placed on the second cell, over a cached handle
C1_Witness ==
    /\ lastOp.op = "set" /\ lastOp.err = "" /\ lastOp.args = <<1, 0>>
    /\ lastOp.enc = <<BALL, GREEN, 0>>
    /\ IsWorldObj(lastOp.prev)

\* C2 (as claimed): a world object placed by Grid.set and still cached at
\* (x, y) reads the same record as the grid cell (x, y) and as
\* Grid.encode()[x, y], whatever writes were made through either.
C2_AttachedVisible ==
    \A c \in DOMAIN world_objects :
        (IsWorldObj(world_objects[c]) /\ world_objects[c] # Mat(c[1], c[2])) =>
            /\ RecOf(G, world_objects[c]) = state[c]
            /\ ObjEncode(G, world_objects[c]) = GridEncode(G, <<>>).a[c]

\* C3: a set that pops a world-object handle from (x, y) and caches something
\* else there leaves the handle with a private record holding the values it
\* had; a write through a handle with a private record changes no grid cell;
\* and a handle's record becomes a view again only by a set or get that
\* caches that handle.
C3_EvictedDetached ==
    [][ /\ (lastOp'.op = "set" /\ lastOp'.err = "" /\ Cached(lastOp'.args)) =>
            LET c == lastOp'.args
                h == world_objects[c]
            IN  (IsWorldObj(h) /\ world_objects'[c] # h) =>
                    /\ ~objs'[h].attached
                    /\ objs'[h].rec = RecOf(G, h)
        /\ (lastOp'.op = "write" /\ ~objs[lastOp'.v].attached) => state' = state
        /\ \A h \in DOMAIN objs :
                (~objs[h].attached /\ objs'[h].attached) =>
                    /\ lastOp'.op = "set"
                    /\ world_objects'[lastOp'.args] = h
      ]_vars

\* a cached handle was evicted by a set of another world object
C3_Witness ==
    /\ lastOp.op = "set" /\ lastOp.err = ""
    /\ IsWorldObj(lastOp.prev)
    /\ IsWorldObj(world_objects[lastOp.args])
    /\ world_objects[lastOp.args] # lastOp.prev
    /\ ~objs[lastOp.prev].attached

\* C4 (as claimed): every world-object handle in the cache under (x, y) has a
\* record that is a view of the grid cell (x, y).
C4_CachedIsView ==
    \A c \in DOMAIN world_objects :
        IsWorldObj(world_objects[c]) =>
            /\ objs[world_objects[c]].attached
            /\ objs[world_objects[c]].cell = c

\* C5 (as claimed): Grid.get(x, y) returns None exactly when the cell has
\* type empty, and otherwise a handle whose type is the cell's type.
C5_GetMatchesBuffer ==
    \A c \in ActiveCells :
        LET r == GridGet(G, c[1], c[2]) IN
            /\ (r.ret = None) <=> (state[c][1] = EMPTY)
            /\ (r.ret # None) => (RecOf(r.g, r.ret)[1] = state[c][1])

\* C6: a Grid.set with a coordinate outside the grid raises the assertion
\* error and leaves the buffer, the cache and every object as they were.
C6_SetOutOfBounds ==
    [][ (lastOp'.op = "set" /\ OffGrid(lastOp'.args)) =>
            /\ lastOp'.err = "AssertionError"
            /\ state' = state
            /\ world_objects' = world_objects
            /\ objs' = objs
      ]_vars

\* set(-1, 0, v) was refused on a grid that holds something
C6_Witness ==
    /\ lastOp.op = "set" /\ lastOp.args = <<-1, 0>>
    /\ lastOp.err = "AssertionError"
    /\ \E c \in DOMAIN world_objects : IsWorldObj(world_objects[c])

\* C7: decode(encode(g)) with the default mask gives a grid of g's width and
\* height whose buffer equals g's.
C7_RoundTrip ==
    (lastOp.op = "decode" /\ lastOp.args = <<>>) =>
        /\ lastOp.out.grid.w = Width
        /\ lastOp.out.grid.h = Height
        /\ lastOp.out.grid.state = state

\* a grid holding a wall, a recoloured object and empty cells was round-tripped
C7_Witness ==
    /\ lastOp.op = "decode" /\ lastOp.args = <<>>
    /\ state[<<2, 2>>] = WallRec
    /\ state[<<1, 1>>] = EmptyRec
    /\ \E c \in ActiveCells : state[c] = <<BALL, GREEN, 0>>

Root == RootObj(Len(abuf))
\* every value a view reads for field f is val
ViewReadsAll(buf, obj, f, val) ==
    IF obj.scalar THEN FieldGet(buf, obj, f) = val
    ELSE \A i \in 1..Len(obj.vw.rows) : FieldGet(buf, obj, f)[i] = val

\* C8: after batch.f = v every batch[k].f reads v; after batch[k].f = v the
\* batch read batch.f has v at k, every other element of batch.f and every
\* other field and column of every record is as before.
C8_BatchScalar ==
    [][ /\ (alast'.op = "batchset") =>
            \A k \in 0..(Len(abuf') - 1) :
                FieldGet(abuf', GetItem(abuf', acarried', <<"int", k>>), alast'.f)
                    = alast'.val
        /\ (alast'.op = "viewset" /\ view.kind = "int") =>
            LET k == view.data.rows[1]
                f == alast'.f
            IN  /\ FieldGet(abuf', Root, f)[k] = alast'.val
                /\ \A j \in 1..Len(abuf) : \A g \in Fields :
                        (j # k \/ g # f) =>
                            FieldGet(abuf', Root, g)[j] = FieldGet(abuf, Root, g)[j]
                /\ \A j \in 1..Len(abuf) :
                        \A c \in {TYPE} \cup (CARRYING_START..(AgentDim - 1)) :
                            abuf'[j][c] = abuf[j][c]
      ]_vars

\* a scalar colour write followed a batch colour write on a batch of three
C8_Witness ==
    /\ alast.op = "viewset" /\ alast.f = "color" /\ view.kind = "int"
    /\ Len(abuf) = 3
    /\ FieldGet(abuf, Root, "color") = <<"yellow", "yellow", "red">>
    /\ FieldGet(abuf, Root, "dir") = <<0, 0, 0>>

\* C9: whatever the index (integer, slice or boolean mask), a
\* write through the returned object is read back from the parent batch, and
\* a write to the parent is read back through the returned object.
C9_IndexShares ==
    [][ /\ (alast'.op = "viewset") =>
            \A i \in 1..Len(view.data.rows) :
                FieldGet(abuf', Root, alast'.f)[view.data.rows[i]] = alast'.val
        /\ (alast'.op = "batchset" /\ view.kind # "none") =>
            ViewReadsAll(abuf', view', alast'.f, alast'.val)
      ]_vars

AgentRec(buf, ag) == RefRead(buf, ag.state.vw)[1]

\* C11: Agent.reset(mission) sets pos (-1, -1), dir -1, terminated false,
\* carrying None with an empty numeric carrying record, and the mission; it
\* leaves index, colour, view_size and see_through_walls as they were; and
\* the records and carried objects of every other agent of the batch are as
\* before.
C11_Reset ==
    [][ (alast'.op = "reset") =>
            /\ FieldGet(abuf', agent'.state, "pos") = <<-1, -1>>
            /\ FieldGet(abuf', agent'.state, "dir") = -1
            /\ FieldGet(abuf', agent'.state, "terminated") = FALSE
            /\ CarryingGet(acarried', agent'.state) = None
            /\ \A c \in 1..WorldObjDim :
                    AgentRec(abuf', agent')[CARRYING_START + c - 1] = EmptyRec[c]
            /\ agent'.mission = alast'.val
            /\ agent'.index = agent.index
            /\ agent'.view_size = agent.view_size
            /\ agent'.see_through_walls = agent.see_through_walls
            /\ FieldGet(abuf', agent'.state, "color")
                    = FieldGet(abuf, agent.state, "color")
            /\ AgentRec(abuf', agent')[TYPE] = AgentRec(abuf, agent)[TYPE]
            /\ \A j \in 1..Len(abuf) :
                    j \notin RowsOf(agent.state) =>
                        abuf'[j] = abuf[j] /\ acarried'[j] = acarried[j]
      ]_vars

\* an agent of a larger batch that had moved, turned, terminated and picked
\* up the ball was reset
C11_Witness ==
    /\ alast.op = "reset" /\ alast.val = "reach the goal"
    /\ Len(abuf) > 1
    /\ nWrites = MaxWrites
    /\ FieldGet(abuf, agent.state, "color") = "purple"
    /\ \E j \in 1..Len(abuf) : abuf[j][DIR] = 0

\* C12: any two render_tile calls made with equal keys returned the same
\* buffer, and a call never removes a key from the tile cache nor replaces
\* the buffer stored under a key.
C12_TileCache ==
    [][ /\ \A p \in returned' : \A q \in returned' :
                p[1] = q[1] => p[2] = q[2]
        /\ DOMAIN tile_cache \subseteq DOMAIN tile_cache'
        /\ \A k \in DOMAIN tile_cache : tile_cache'[k] = tile_cache[k]
      ]_vars

\* a key was requested again with another subdivision factor, in a cache that
\* holds tiles of the ball in both colours and of the empty cell
C12_Witness ==
    /\ tile_last.hit
    /\ tile_last.subdivs # tile_last.ret.subdivs
    /\ \E k \in DOMAIN tile_cache : k[1] = <<BALL, RED, 0>>
    /\ \E k \in DOMAIN tile_cache : k[1] = <<BALL, GREEN, 0>>
    /\ \E k \in DOMAIN tile_cache : k[1] = <<>> /\ k[2]

\* the last call placed the agent on the cell where the agent stands
AgentPlaced ==
    /\ lastOp.op = "set" /\ lastOp.v = TheAgent
    /\ agent # NoAgent
    /\ RecGet(AgentRecOf(G, abuf, agent), "pos") = lastOp.args

\* C13: after Grid.set(x, y, agent) for an agent with pos (x, y), the call
\* has succeeded, Grid.encode()[x, y] is the agent's (type, colour, dir) and
\* Grid.get(x, y) returns a handle whose front cell is pos plus the unit
\* vector of dir.
C13_PlaceAgent ==
    AgentPlaced =>
        LET r == GridGet(G, lastOp.args[1], lastOp.args[2]) IN
            /\ lastOp.err = ""
            /\ GridEncode(G, <<>>).a[lastOp.args] = AgentEncode(G, abuf, agent)
            /\ r.ret = TheAgent
            /\ FrontPos(G, abuf, agent)
                    = <<lastOp.args[1] + DirVec(AgentRecOf(G, abuf, agent)[DIR])[1],
                        lastOp.args[2] + DirVec(AgentRecOf(G, abuf, agent)[DIR])[2]>>

\* C14: after Grid.set(x, y, agent) the cell holds an agent Cell Record, the
\* cache has no entry for (x, y), and Grid.get(x, y) returns a placeholder
\* world object, not the Agent.
C14_AgentNotCached ==
    (lastOp.op = "set" /\ lastOp.v = TheAgent) =>
        LET r == GridGet(G, lastOp.args[1], lastOp.args[2]) IN
            /\ state[lastOp.args][1] = AGENT
            /\ ~Cached(lastOp.args)
            /\ r.ret # TheAgent
            /\ IsWorldObj(r.ret)

\* C15: Grid.set(x, y, agent) leaves the agent, its record and its carried
\* object as they were; a write of the agent's colour, dir or pos changes no
\* grid cell; and a call on the grid leaves the agent's record as it was.
C15_Projection ==
    [][ /\ (lastOp'.op = "set" /\ lastOp'.v = TheAgent /\ nWrites' = nWrites
                /\ agent # NoAgent) =>
            /\ agent' = agent
            /\ abuf' = abuf
            /\ acarried' = acarried
        /\ (nWrites' # nWrites) => state' = state
        /\ (nWrites' = nWrites /\ agent # NoAgent) =>
            AgentRecOf([G EXCEPT !.state = state'], abuf', agent')
                = AgentRecOf(G, abuf, agent)
      ]_vars

\* the agent was placed on (0, 0) and is cached there, then changed colour and
\* direction, and a wall was written over the cell
C15_Witness ==
    /\ lastOp.op = "horz_wall"
    /\ Cached(<<0, 0>>) /\ world_objects[<<0, 0>>] = TheAgent
    /\ state[<<0, 0>>] = WallRec
    /\ alast.op = "agentset"
    /\ AgentEncode(G, abuf, agent) = <<AGENT, GREEN, 0>>

\* C16: for every record of the batch the numeric carrying record has type
\* empty exactly when the side table holds None at that position, and a value
\* assigned to carrying through the agent's scalar view batch[k] is the one
\* batch.carrying holds at k.
C16_CarryingMirror ==
    [][ /\ \A k \in 1..Len(abuf') :
                (abuf'[k][CARRYING_START] = EMPTY) <=> (acarried'[k] = None)
        /\ (alast'.op = "agentcarry" /\ ~agent.state.data.own) =>
                \A k \in RowsOf(agent.state) :
                    CarryingGet(acarried', RootObj(Len(abuf')))[k] = alast'.val
      ]_vars

\* C17: every record's dir is in {-1, 0, 1, 2, 3}, and an assignment of any
\* other value to dir leaves every record as it was.
C17_DirRange ==
    [][ /\ \A k \in 1..Len(abuf') : abuf'[k][DIR] \in -1..3
        /\ (alast'.op \in {"batchset", "viewset"} /\ nWrites' # nWrites
                /\ alast'.f = "dir" /\ alast'.val \notin -1..3) =>
                abuf' = abuf
      ]_vars

\* C18: assigning to a field of a batch of N records a sequence whose length
\* is not N raises an error and leaves every record as it was.
C18_ShapeMismatch ==
    [][ (alast'.op = "batchseq" /\ nWrites' # nWrites
            /\ Len(alast'.val) # Len(abuf)) =>
                /\ alast'.err # ""
                /\ abuf' = abuf
      ]_vars

\* C19: Grid.encode(vis_mask) leaves the buffer, the cache and the objects as
\* they were; the tensor holds each visible cell's (type, colour, state) and
\* (0, 0, 0) for each cell the mask hides; and a write to the returned tensor
\* changes nothing of the grid.
C19_EncodeFrame ==
    [][ /\ (lastOp'.op = "encode") =>
            /\ state' = state
            /\ world_objects' = world_objects
            /\ objs' = objs
            /\ \A c \in Cells(Width, Height) :
                    lastOp'.out.a[c] =
                        IF lastOp'.args = <<>> \/ c \in lastOp'.args[1]
                        THEN <<state[c][1], state[c][2], state[c][3]>>
                        ELSE ZeroRec
        /\ (lastOp'.op = "tensor_write") =>
            /\ state' = state
            /\ world_objects' = world_objects
            /\ objs' = objs
      ]_vars

\* a grid with the recoloured ball on the cell the mask hides was encoded
\* with that mask, and the caller overwrote that cell of the tensor
C19_Witness ==
    /\ lastOp.op = "tensor_write" /\ lastOp.args # <<>>
    /\ lastOp.out.a[<<0, 0>>] = <<BALL, GREEN, 1>>
    /\ lastOp.out.a[<<1, 0>>] = WallRec
    /\ state[<<0, 0>>] = <<BALL, GREEN, 0>>

\* C20: the mask Grid.decode returns is false exactly on the cells whose
\* type index in the tensor is the unseen index, so decoding encode(g, m) of
\* a grid without unseen cells returns m.
C20_DecodeMask ==
    (lastOp.op = "decode") =>
        /\ lastOp.out.vis_mask =
                {c \in Cells(Width, Height) :
                    GridEncode(G, lastOp.args).a[c][1] # UNSEEN}
        /\ lastOp.out.vis_mask = Visible(G, lastOp.args)

\* a grid with walls, empty cells and the ball on the hidden cell was encoded
\* under the mask and decoded
C20_Witness ==
    /\ lastOp.op = "decode" /\ lastOp.args # <<>>
    /\ state[<<0, 0>>][1] = BALL
    /\ state[<<2, 2>>] = WallRec
    /\ state[<<1, 1>>] = EmptyRec
    /\ lastOp.out.grid.state[<<0, 0>>] = EmptyRec

\* the cells of the grid on the run of len cells from (x, y) along x / along y
RunH(x, y, length) ==
    LET len == IF length = <<>> THEN Width - x ELSE length[1] IN
    {c \in Cells(Width, Height) : c[2] = y /\ x <= c[1] /\ c[1] < x + len}
RunV(x, y, length) ==
    LET len == IF length = <<>> THEN Height - y ELSE length[1] IN
    {c \in Cells(Width, Height) : c[1] = x /\ y <= c[2] /\ c[2] < y + len}
\* the cells of the grid on the four edges of the rectangle
RectEdges(x, y, w, h) ==
    {c \in Cells(Width, Height) :
        /\ x <= c[1] /\ c[1] < x + w /\ y <= c[2] /\ c[2] < y + h
        /\ (c[1] \in {x, x + w - 1} \/ c[2] \in {y, y + h - 1})}
\* the call wrote walls on exactly the cells of S and raised nothing
WroteExactly(S) ==
    /\ lastOp'.err = ""
    /\ \A c \in Cells(Width, Height) :
            state'[c] = IF c \in S THEN WallRec ELSE state[c]
\* the arguments of the last wall call
WallArgLength(args) == IF Len(args) = 2 THEN <<>> ELSE <<args[3]>>

\* C21: horz_wall, vert_wall and wall_rect, whatever their arguments, write
\* a Wall record to exactly the cells of the run (of the four edges) that
\* lie inside the grid, leave every other cell as it was, and raise nothing.
C21_WallRuns ==
    [][ /\ (lastOp'.op = "horz_wall") =>
            WroteExactly(RunH(lastOp'.args[1], lastOp'.args[2],
                              WallArgLength(lastOp'.args)))
        /\ (lastOp'.op = "vert_wall") =>
            WroteExactly(RunV(lastOp'.args[1], lastOp'.args[2],
                              WallArgLength(lastOp'.args)))
        /\ (lastOp'.op = "wall_rect") =>
            WroteExactly(RectEdges(lastOp'.args[1], lastOp'.args[2],
                                   lastOp'.args[3], lastOp'.args[4]))
      ]_vars

\* the run starts at a cell of the grid and has a length that is not negative
RunInside(args) ==
    /\ 0 <= args[1] /\ args[1] < Width
    /\ 0 <= args[2] /\ args[2] < Height
    /\ (Len(args) = 3 => args[3] >= 0)
\* the rectangle is not empty and lies inside the grid
RectInside(args) ==
    /\ 0 <= args[1] /\ 0 <= args[2] /\ args[3] >= 1 /\ args[4] >= 1
    /\ args[1] + args[3] <= Width /\ args[2] + args[4] <= Height

\* C21 (amended): the same, for a run that starts at a cell of the grid with
\* a length that is not negative (clipped at the far edge), and for a
\* rectangle that is not empty and lies inside the grid.
C21_WallRunsInside ==
    [][ /\ (lastOp'.op = "horz_wall" /\ RunInside(lastOp'.args)) =>
            WroteExactly(RunH(lastOp'.args[1], lastOp'.args[2],
                              WallArgLength(lastOp'.args)))
        /\ (lastOp'.op = "vert_wall" /\ RunInside(lastOp'.args)) =>
            WroteExactly(RunV(lastOp'.args[1], lastOp'.args[2],
                              WallArgLength(lastOp'.args)))
        /\ (lastOp'.op = "wall_rect" /\ RectInside(lastOp'.args)) =>
            WroteExactly(RectEdges(lastOp'.args[1], lastOp'.args[2],
                                   lastOp'.args[3], lastOp'.args[4]))
      ]_vars

\* a horizontal run from (1, 1) longer than the row was clipped at the edge,
\* on a grid that holds the ball and an empty cell
C21_Witness ==
    /\ lastOp.op = "horz_wall" /\ lastOp.args = <<1, 1, Width>>
    /\ lastOp.err = ""
    /\ state[<<Width - 1, 1>>] = WallRec
    /\ state[<<0, 1>>] = EmptyRec
    /\ state[<<0, 0>>][1] = BALL

\* C22: a render_tile call whose (object encoding, highlight, tile_size) is
\* already a key of the tile cache returns the buffer cached under it, which
\* was rendered for these three values, renders nothing and leaves the cache
\* as it was, whatever subdivision factor the call passes.
C22_KeyIgnoresSubdivs ==
    [][ (tile_last' # tile_last /\ tile_last'.key \in DOMAIN tile_cache) =>
            /\ tile_last'.hit
            /\ tile_last'.ret = tile_cache[tile_last'.key]
            /\ tile_last'.key = <<tile_last'.ret.obj, tile_last'.ret.highlight,
                                  tile_last'.ret.tile_size>>
            /\ tile_cache' = tile_cache
      ]_vars

\* the highlighted tile of the green ball, cached with subdivision factor 3,
\* was requested with factor 2 and the cached buffer came back
C22_Witness ==
    /\ tile_last.hit
    /\ tile_last.key[1] = <<BALL, GREEN, 0>> /\ tile_last.key[2]
    /\ tile_last.subdivs = 2 /\ tile_last.ret.subdivs = 3
    /\ tile_cache[tile_last.key].subdivs = 3
====
